---- MODULE Spec2Model ----
(***************************************************************************)
(* A model of crayon's entity-component-system core:                       *)
(*   - src/src/ecs/system.rs    : capability bundles (Fetch / FetchMut      *)
(*     tuples), their read/write masks, and validate();                     *)
(*   - src/src/ecs/component.rs : HashMapArena and VecArena.                *)
(* BitSet, DynamicBitSet and World live in files that are not part of the   *)
(* sources at hand; they are modelled from their documented contract.       *)
(***************************************************************************)
EXTENDS Integers, Sequences, FiniteSets, TLC

(* ------------------------------ bounds -------------------------------- *)

\* Number of registered component types.
NumTypes == 2
\* Longest batch of systems handed to validate.
MaxBatch == 2
\* Largest tuple arity of a capability bundle.
MaxArity == 3
\* Largest HandleIndex handed to an arena.
MaxIndex == 2
\* Number of insert calls in the life of an arena.
MaxInserts == 4

(* ------------------------------ state --------------------------------- *)

VARIABLES
    world,      \* the World's registry: component type -> arena index
    systems,    \* the batch of systems, each given by its ViewWith bundle
    pc,         \* "ready" before the call under study, "done" after it
    result,     \* what validate returned ("none" before the call)
    masks,      \* what readables / writables / mask_at returned (empty before)
    fetched,    \* per system: how many elements of its bundle it has fetched
    borrows,    \* per component type: outstanding shared / exclusive borrows
    hm,         \* HashMapArena.values: HandleIndex -> T
    va,         \* VecArena: [mask: DynamicBitSet, values: Vec<T>]
    call,       \* the last arena call: its name and arguments
    ret,        \* what that call returned, from each of the two arenas
    nextTok,    \* number of values inserted so far; the n-th value is named n
    released,   \* per value: how often the dense arena moved it out or destructed it
    touched,    \* the dense slots the last call read with ptr::read
    ub,         \* the dense arena read a slot that holds no value, or out of bounds
    recent,     \* per index: its most recent insert / remove, if any
    inserted,   \* the indices insert was ever called with
    dropped     \* the arenas have been dropped

schedVars == <<world, systems, pc, result, masks, fetched, borrows>>

arenaVars == <<hm, va, call, ret, nextTok, released, touched, ub, recent, inserted, dropped>>

vars == <<schedVars, arenaVars>>

(* ------------------------- BitSet (contract) --------------------------- *)

\* BitSet::new(): the empty bit set.
BitSetNew == {}

\* BitSet::insert(i): sets bit i.
BitSetInsert(mask, i) == mask \cup {i}

\* BitSet::union_with(other) -> Self
union_with(a, b) == a \cup b

\* BitSet::intersect_with(other) -> Self
intersect_with(a, b) == a \cap b

\* BitSet::is_empty() -> bool
is_empty(a) == a = {}

(* -------------------------- World (contract) --------------------------- *)

\* Component types, named by small integers.
Types == 1..NumTypes

\* The registries a World can hold: every type has its own arena index.
Registries ==
    {f \in [Types -> 0..(NumTypes - 1)] : \A s, t \in Types : f[s] = f[t] => s = t}

\* The registry of a World whose types were registered in the order 1, 2, ...
RegistrationOrder == [t \in Types |-> t - 1]

\* World::index::<T>(): the permanent arena index of T.
index(wd, T) == wd[T]

\* No borrow of any arena is outstanding.
NoBorrows == [t \in Types |-> [shared |-> 0, excl |-> 0]]

\* World::arena::<T>(): hands out a shared (read) handle of T's arena.
arena(bs, T) == [bs EXCEPT ![T].shared = @ + 1]

\* World::arena_mut::<T>(): hands out an exclusive (write) handle of T's arena.
arena_mut(bs, T) == [bs EXCEPT ![T].excl = @ + 1]

\* Dropping a Fetch<T> / FetchMut<T> handle gives the borrow back.
release(bs, e) ==
    IF e.kind = "Fetch"
    THEN [bs EXCEPT ![e.ty].shared = @ - 1]
    ELSE [bs EXCEPT ![e.ty].excl = @ - 1]

(* ---------------------- SystemData: the bundles ------------------------ *)

\* The two primitive capabilities, Fetch<T> and FetchMut<T>.
Caps == [kind : {"Fetch", "FetchMut"}, ty : Types]

\* impl SystemData for Fetch<T>: readables
Fetch_readables(wd, T) == BitSetInsert(BitSetNew, index(wd, T))

\* mutant of Fetch_writables: the body of readables, pasted into writables
Fetch_writables_pasted(wd, T) == BitSetInsert(BitSetNew, index(wd, T))

\* impl SystemData for Fetch<T>: writables
Fetch_writables(wd, T) == BitSetNew

\* impl SystemData for FetchMut<T>: readables
FetchMut_readables(wd, T) == BitSetNew

\* impl SystemData for FetchMut<T>: writables
FetchMut_writables(wd, T) == BitSetInsert(BitSetNew, index(wd, T))

\* <$ty as SystemData>::readables(world) for one element of a tuple
elem_readables(wd, e) ==
    IF e.kind = "Fetch" THEN Fetch_readables(wd, e.ty) ELSE FetchMut_readables(wd, e.ty)

\* <$ty as SystemData>::writables(world) for one element of a tuple
elem_writables(wd, e) ==
    IF e.kind = "Fetch" THEN Fetch_writables(wd, e.ty) ELSE FetchMut_writables(wd, e.ty)

\* The $( mask = mask.union_with(..readables(world)) )* repetition of the macro.
RECURSIVE readables_from(_, _, _)
readables_from(wd, bundle, mask) ==
    IF bundle = <<>>
    THEN mask
    ELSE readables_from(wd, Tail(bundle), union_with(mask, elem_readables(wd, Head(bundle))))

\* The $( mask = mask.union_with(..writables(world)) )* repetition of the macro.
RECURSIVE writables_from(_, _, _)
writables_from(wd, bundle, mask) ==
    IF bundle = <<>>
    THEN mask
    ELSE writables_from(wd, Tail(bundle), union_with(mask, elem_writables(wd, Head(bundle))))

\* SystemData::readables of a tuple bundle (and of (), the empty bundle);
\* SystemValidator::readables of a system is that of its ViewWith.
readables(wd, bundle) == readables_from(wd, bundle, BitSetNew)

\* SystemData::writables of a tuple bundle (and of (), the empty bundle);
\* SystemValidator::writables of a system is that of its ViewWith.
writables(wd, bundle) == writables_from(wd, bundle, BitSetNew)

\* System::mask_at: readables union writables.
mask_at(wd, bundle) == union_with(readables(wd, bundle), writables(wd, bundle))

(* ------------------------------ validate ------------------------------- *)

\* The for loop of validate and the check after it, with the accumulators r, w.
RECURSIVE validate_loop(_, _, _, _)
validate_loop(wd, rest, r, w) ==
    IF rest = <<>>
    THEN is_empty(intersect_with(w, r))
    ELSE LET s  == Head(rest)
             r2 == union_with(r, readables(wd, s))
         IN  IF ~is_empty(intersect_with(w, writables(wd, s)))
             THEN FALSE
             ELSE validate_loop(wd, Tail(rest), r2, union_with(w, writables(wd, s)))

\* mutant of validate: the read/write check is made inside the loop, against
\* the reads accumulated so far, and not after it.
RECURSIVE validate_loop_early(_, _, _, _)
validate_loop_early(wd, rest, r, w) ==
    IF rest = <<>>
    THEN TRUE
    ELSE LET s  == Head(rest)
             r2 == union_with(r, readables(wd, s))
         IN  IF ~is_empty(intersect_with(w, writables(wd, s)))
                \/ ~is_empty(intersect_with(r2, writables(wd, s)))
             THEN FALSE
             ELSE validate_loop_early(wd, Tail(rest), r2, union_with(w, writables(wd, s)))

validate_early(wd, ss) == validate_loop_early(wd, ss, BitSetNew, BitSetNew)

\* mutant of validate: a write/write hit leaves the loop (break) without
\* returning, and the check after the loop decides.
RECURSIVE validate_loop_break(_, _, _, _)
validate_loop_break(wd, rest, r, w) ==
    IF rest = <<>>
    THEN is_empty(intersect_with(w, r))
    ELSE LET s  == Head(rest)
             r2 == union_with(r, readables(wd, s))
         IN  IF ~is_empty(intersect_with(w, writables(wd, s)))
             THEN is_empty(intersect_with(w, r2))
             ELSE validate_loop_break(wd, Tail(rest), r2, union_with(w, writables(wd, s)))

validate_break(wd, ss) == validate_loop_break(wd, ss, BitSetNew, BitSetNew)

\* mutant of validate: the final read/write check is left out.
validate_ww_only(wd, ss) ==
    \A i, j \in 1..Len(ss) :
        i < j => is_empty(intersect_with(writables(wd, ss[i]), writables(wd, ss[j])))

\* validate(world, systems)
validate(wd, ss) == validate_loop(wd, ss, BitSetNew, BitSetNew)

(* ------------------------------- inputs -------------------------------- *)

\* All sequences over S of length at most n.
SeqsUpTo(S, n) == UNION {[1..k -> S] : k \in 0..n}

\* The elements of a set of integers, in ascending order.
RECURSIVE Ascending(_)
Ascending(S) ==
    IF S = {}
    THEN <<>>
    ELSE LET m == CHOOSE x \in S : \A y \in S : x <= y
         IN  <<m>> \o Ascending(S \ {m})

\* A system that reads the types rs and writes the types ws: its bundle.
BundleFor(rs, ws) ==
    [k \in 1..Cardinality(rs) |-> [kind |-> "Fetch", ty |-> Ascending(rs)[k]]]
    \o [k \in 1..Cardinality(ws) |-> [kind |-> "FetchMut", ty |-> Ascending(ws)[k]]]

\* One system for every pair of a read mask and a write mask.
MaskSystems == {BundleFor(rs, ws) : rs \in SUBSET Types, ws \in SUBSET Types}

\* Every capability bundle up to the largest arity.
Bundles == SeqsUpTo(Caps, MaxArity)


(* ------------------ Option, DynamicBitSet, Vec (contract) -------------- *)

\* Option<T>: None and Some(x).
None == <<>>
Some(x) == <<x>>

\* DynamicBitSet::new()
DynamicBitSetNew == {}

\* DynamicBitSet::contains(i)
contains(mask, i) == i \in mask

\* DynamicBitSet::insert(i)
mask_insert(mask, i) == mask \cup {i}

\* DynamicBitSet::remove(i)
mask_remove(mask, i) == mask \ {i}

\* DynamicBitSet::iter(): the set bits, ascending.
mask_iter(mask) == Ascending(mask)

\* DynamicBitSet::clear()
mask_clear(mask) == {}

\* A slot of the Vec's buffer that was never written.
Uninit == [st |-> "uninit", val |-> 0]

\* Vec::set_len(n): the length is set; slots gained are uninitialized memory,
\* slots lost are forgotten without being destructed.
set_len(values, n) ==
    IF n >= Len(values)
    THEN values \o [k \in 1..(n - Len(values)) |-> Uninit]
    ELSE SubSeq(values, 1, n)

\* The T a slot's bytes stand for.
ValueOf(slot) == slot.val

\* Vec::get(i): bounds-checked.
vec_get(values, i) == IF i < Len(values) THEN Some(ValueOf(values[i + 1])) ELSE None

\* ptr::read(values.get_unchecked(i)): the bytes of the slot, as a T. The slot
\* is left as it is in memory; it no longer owns the value.
ptr_read(values, i) == ValueOf(values[i + 1])

\* The buffer after ptr::read moved the value of slot i out.
moved_out(values, i) == [values EXCEPT ![i + 1].st = "moved"]

\* ptr::write(values.get_unchecked_mut(i), v): the slot holds v; what it held
\* is neither read nor destructed. Beyond the length nothing of the Vec changes.
ptr_write(values, i, val) ==
    IF i < Len(values)
    THEN [values EXCEPT ![i + 1] = [st |-> "live", val |-> val]]
    ELSE values

(* ----------------------------- HashMapArena ---------------------------- *)

\* HashMapArena::new()
hm_new == <<>>

\* HashMapArena::get / get_mut
hm_get(h, id) == IF id \in DOMAIN h THEN Some(h[id]) ELSE None

\* What an unchecked accessor ends with: a reference to a slot (what the slot
\* holds, and the value if it holds one) or a panic.
Ref(st, val) == [kind |-> "ref", slot |-> st, val |-> val]
Panic == [kind |-> "panic", slot |-> "none", val |-> 0]

\* HashMapArena::get_unchecked: &self.values[&id], which panics on a key
\* the map does not hold.
hm_get_unchecked(h, id) == IF id \in DOMAIN h THEN Ref("live", h[id]) ELSE Panic

\* HashMapArena::get_unchecked_mut: self.values.get_mut(&id).unwrap()
hm_get_unchecked_mut(h, id) == IF id \in DOMAIN h THEN Ref("live", h[id]) ELSE Panic

\* HashMapArena::insert: [values, ret]
hm_insert(h, id, val) ==
    [values |-> [k \in DOMAIN h \cup {id} |-> IF k = id THEN val ELSE h[k]],
     ret    |-> IF id \in DOMAIN h THEN Some(h[id]) ELSE None]

\* HashMapArena::remove: [values, ret]
hm_remove(h, id) ==
    [values |-> [k \in DOMAIN h \ {id} |-> h[k]],
     ret    |-> IF id \in DOMAIN h THEN Some(h[id]) ELSE None]

(* ------------------------------- VecArena ------------------------------ *)

\* VecArena::new()
va_new == [mask |-> DynamicBitSetNew, values |-> <<>>]

\* mutant of va_get: the Vec alone is asked, the mask is not.
va_get_no_mask(a, id) == vec_get(a.values, id)

\* VecArena::get
va_get(a, id) == IF contains(a.mask, id) THEN vec_get(a.values, id) ELSE None

\* VecArena::get_mut
va_get_mut(a, id) == IF contains(a.mask, id) THEN vec_get(a.values, id) ELSE None

\* Vec::get_unchecked(i) / get_unchecked_mut(i): no check at all. Inside the
\* Vec it is a reference to slot i, whatever the slot holds; outside, the
\* behaviour is undefined: the call may crash or hand out a reference to
\* memory that is no slot of the Vec.
vec_get_unchecked(values, i) ==
    IF i < Len(values)
    THEN {Ref(values[i + 1].st, IF values[i + 1].st = "live" THEN values[i + 1].val ELSE 0)}
    ELSE {Panic, Ref("outside", 0)}

\* mutant of va_get_unchecked: the presence bit is asserted first.
va_get_unchecked_asserting(a, id) ==
    IF contains(a.mask, id) THEN vec_get_unchecked(a.values, id) ELSE {Panic}

\* VecArena::get_unchecked: the outcomes the call can have.
va_get_unchecked(a, id) == vec_get_unchecked(a.values, id)

\* VecArena::get_unchecked_mut: the outcomes the call can have.
va_get_unchecked_mut(a, id) == vec_get_unchecked(a.values, id)

\* mutant of va_insert: the growth test is id > len.
va_insert_gt(a, id, val) ==
    LET len     == Len(a.values)
        grown   == IF id > len THEN set_len(a.values, id + 1) ELSE a.values
        present == contains(a.mask, id)
    IN  [mask   |-> IF present THEN a.mask ELSE mask_insert(a.mask, id),
         values |-> ptr_write(grown, id, val),
         ret    |-> IF present THEN Some(ptr_read(grown, id)) ELSE None,
         reads  |-> IF present THEN <<id>> ELSE <<>>,
         oob    |-> id >= Len(grown)]

\* mutant of va_insert: the old value is read after the new one is written.
va_insert_read_late(a, id, val) ==
    LET len     == Len(a.values)
        grown   == IF id >= len THEN set_len(a.values, id + 1) ELSE a.values
        present == contains(a.mask, id)
        written == ptr_write(grown, id, val)
    IN  [mask   |-> IF present THEN a.mask ELSE mask_insert(a.mask, id),
         values |-> written,
         ret    |-> IF present THEN Some(ptr_read(written, id)) ELSE None,
         reads  |-> IF present THEN <<id>> ELSE <<>>,
         oob    |-> id >= Len(grown)]

\* mutant of va_insert: the presence bit of a new index is not set.
va_insert_no_bit(a, id, val) ==
    LET len     == Len(a.values)
        grown   == IF id >= len THEN set_len(a.values, id + 1) ELSE a.values
        present == contains(a.mask, id)
    IN  [mask   |-> a.mask,
         values |-> ptr_write(grown, id, val),
         ret    |-> IF present THEN Some(ptr_read(grown, id)) ELSE None,
         reads  |-> IF present THEN <<id>> ELSE <<>>,
         oob    |-> id >= Len(grown)]

\* mutant of va_insert: every slot gained by the growth is marked present.
va_insert_marks_range(a, id, val) ==
    LET len     == Len(a.values)
        grown   == IF id >= len THEN set_len(a.values, id + 1) ELSE a.values
        present == contains(a.mask, id)
    IN  [mask   |-> IF present THEN a.mask ELSE a.mask \cup (len..id) \cup {id},
         values |-> ptr_write(grown, id, val),
         ret    |-> IF present THEN Some(ptr_read(grown, id)) ELSE None,
         reads  |-> IF present THEN <<id>> ELSE <<>>,
         oob    |-> id >= Len(grown)]

\* VecArena::insert: [mask, values, ret], with the slots it read with
\* ptr::read and whether its get_unchecked / get_unchecked_mut left the Vec.
va_insert(a, id, val) ==
    LET len     == Len(a.values)
        grown   == IF id >= len THEN set_len(a.values, id + 1) ELSE a.values
        present == contains(a.mask, id)
    IN  [mask   |-> IF present THEN a.mask ELSE mask_insert(a.mask, id),
         values |-> ptr_write(grown, id, val),
         ret    |-> IF present THEN Some(ptr_read(grown, id)) ELSE None,
         reads  |-> IF present THEN <<id>> ELSE <<>>,
         oob    |-> id >= Len(grown)]

\* mutant of va_remove: the presence bit is left set.
va_remove_keep_bit(a, id) ==
    IF contains(a.mask, id)
    THEN [mask   |-> a.mask,
          values |-> moved_out(a.values, id),
          ret    |-> Some(ptr_read(a.values, id)),
          reads  |-> <<id>>,
          oob    |-> id >= Len(a.values)]
    ELSE [mask |-> a.mask, values |-> a.values, ret |-> None, reads |-> <<>>, oob |-> FALSE]

\* mutant of va_remove: the test is on the Vec's bounds, not on the mask.
va_remove_bounds_only(a, id) ==
    IF id < Len(a.values)
    THEN [mask   |-> mask_remove(a.mask, id),
          values |-> moved_out(a.values, id),
          ret    |-> Some(ptr_read(a.values, id)),
          reads  |-> <<id>>,
          oob    |-> FALSE]
    ELSE [mask |-> a.mask, values |-> a.values, ret |-> None, reads |-> <<>>, oob |-> FALSE]

\* mutant of va_remove: removing the last slot of the Vec gives the slot back.
va_remove_shrink(a, id) ==
    IF contains(a.mask, id)
    THEN [mask   |-> mask_remove(a.mask, id),
          values |-> IF id + 1 = Len(a.values)
                     THEN set_len(a.values, id)
                     ELSE moved_out(a.values, id),
          ret    |-> Some(ptr_read(a.values, id)),
          reads  |-> <<id>>,
          oob    |-> id >= Len(a.values)]
    ELSE [mask |-> a.mask, values |-> a.values, ret |-> None, reads |-> <<>>, oob |-> FALSE]

\* VecArena::remove: [mask, values, ret], with the slots read and the bounds.
va_remove(a, id) ==
    IF contains(a.mask, id)
    THEN [mask   |-> mask_remove(a.mask, id),
          values |-> moved_out(a.values, id),
          ret    |-> Some(ptr_read(a.values, id)),
          reads  |-> <<id>>,
          oob    |-> id >= Len(a.values)]
    ELSE [mask |-> a.mask, values |-> a.values, ret |-> None, reads |-> <<>>, oob |-> FALSE]

\* mutant of va_drop: the loop walks every slot of the Vec, 0..len.
va_drop_all_slots(a) ==
    [mask   |-> mask_clear(a.mask),
     values |-> set_len(a.values, 0),
     reads  |-> [k \in 1..Len(a.values) |-> k - 1],
     oob    |-> FALSE]

\* Drop for VecArena: [mask, values], with the slots read and the bounds.
va_drop(a) ==
    [mask   |-> mask_clear(a.mask),
     values |-> set_len(a.values, 0),
     reads  |-> mask_iter(a.mask),
     oob    |-> \E i \in a.mask : i >= Len(a.values)]

(* --------------------------- arena bookkeeping ------------------------- *)

\* The indices the calls are made with.
Indices == 0..MaxIndex

\* The values handed to insert: every insert stores a value of its own, and
\* the arenas never look into a value, so a value is named by its number.
Tokens == 1..MaxInserts

\* The values of the slots a call read with ptr::read, each as often as read.
\* A slot that never held a value yields none.
RECURSIVE ReadTokens(_, _)
ReadTokens(values, reads) ==
    IF reads = <<>>
    THEN <<>>
    ELSE LET i == Head(reads)
         IN  (IF i < Len(values) /\ values[i + 1].st # "uninit"
              THEN <<values[i + 1].val>> ELSE <<>>)
             \o ReadTokens(values, Tail(reads))

\* The release counts after the values toks left the arena.
RECURSIVE Released(_, _)
Released(rel, toks) ==
    IF toks = <<>>
    THEN rel
    ELSE Released([rel EXCEPT ![Head(toks)] = @ + 1], Tail(toks))

\* A ptr::read of the call hit a slot that holds no value (never written, or
\* moved out), or lay outside the Vec.
BadRead(values, reads) ==
    \E k \in DOMAIN reads : reads[k] >= Len(values) \/ values[reads[k] + 1].st # "live"

\* The set of the elements of a sequence.
Range(f) == {f[k] : k \in DOMAIN f}

(* ----------------------------- arena actions --------------------------- *)

\* Both arenas as ComponentArena::new() leaves them.
ArenasNew ==
    /\ hm = hm_new
    /\ va = va_new
    /\ call = [op |-> "new", id |-> 0, val |-> None]
    /\ ret = [hm |-> None, va |-> None]
    /\ nextTok = 0
    /\ released = [t \in Tokens |-> 0]
    /\ touched = {}
    /\ ub = FALSE
    /\ recent = [i \in Indices |-> "never"]
    /\ inserted = {}
    /\ dropped = FALSE

\* insert(id, value) on both arenas, with a value not inserted before.
Insert(id) ==
    /\ ~dropped
    /\ nextTok < MaxInserts
    /\ LET val == nextTok + 1
           h   == hm_insert(hm, id, val)
           d   == va_insert(va, id, val)
       IN  /\ hm' = h.values
           /\ va' = [mask |-> d.mask, values |-> d.values]
           /\ call' = [op |-> "insert", id |-> id, val |-> Some(val)]
           /\ ret' = [hm |-> h.ret, va |-> d.ret]
           /\ released' = Released(released, ReadTokens(va.values, d.reads))
           /\ touched' = Range(d.reads)
           /\ ub' = (ub \/ d.oob \/ BadRead(va.values, d.reads))
    /\ nextTok' = nextTok + 1
    /\ recent' = [recent EXCEPT ![id] = "insert"]
    /\ inserted' = inserted \cup {id}
    /\ UNCHANGED <<dropped, schedVars>>

\* remove(id) on both arenas.
Remove(id) ==
    /\ ~dropped
    /\ LET h == hm_remove(hm, id)
           d == va_remove(va, id)
       IN  /\ hm' = h.values
           /\ va' = [mask |-> d.mask, values |-> d.values]
           /\ call' = [op |-> "remove", id |-> id, val |-> None]
           /\ ret' = [hm |-> h.ret, va |-> d.ret]
           /\ released' = Released(released, ReadTokens(va.values, d.reads))
           /\ touched' = Range(d.reads)
           /\ ub' = (ub \/ d.oob \/ BadRead(va.values, d.reads))
    /\ recent' = [recent EXCEPT ![id] = "remove"]
    /\ UNCHANGED <<nextTok, inserted, dropped, schedVars>>

\* get(id) on both arenas.
Get(id) ==
    /\ ~dropped
    /\ call' = [op |-> "get", id |-> id, val |-> None]
    /\ ret' = [hm |-> hm_get(hm, id), va |-> va_get(va, id)]
    /\ touched' = {}
    /\ UNCHANGED <<hm, va, nextTok, released, ub, recent, inserted, dropped, schedVars>>

\* get_mut(id) on both arenas. What the caller writes through the reference
\* stays inside the value, which remains the same object of the arena.
GetMut(id) ==
    /\ ~dropped
    /\ call' = [op |-> "get_mut", id |-> id, val |-> None]
    /\ ret' = [hm |-> hm_get(hm, id), va |-> va_get_mut(va, id)]
    /\ touched' = {}
    /\ UNCHANGED <<hm, va, nextTok, released, ub, recent, inserted, dropped, schedVars>>

\* get_unchecked(id) on both arenas, on any index: the caller may break the
\* precondition. The arenas stay as they are.
GetUnchecked(id) ==
    /\ ~dropped
    /\ call' = [op |-> "get_unchecked", id |-> id, val |-> None]
    /\ \E o \in va_get_unchecked(va, id) :
          ret' = [hm |-> hm_get_unchecked(hm, id), va |-> o]
    /\ touched' = {}
    /\ UNCHANGED <<hm, va, nextTok, released, ub, recent, inserted, dropped, schedVars>>

\* get_unchecked_mut(id) on both arenas, on any index.
GetUncheckedMut(id) ==
    /\ ~dropped
    /\ call' = [op |-> "get_unchecked_mut", id |-> id, val |-> None]
    /\ \E o \in va_get_unchecked_mut(va, id) :
          ret' = [hm |-> hm_get_unchecked_mut(hm, id), va |-> o]
    /\ touched' = {}
    /\ UNCHANGED <<hm, va, nextTok, released, ub, recent, inserted, dropped, schedVars>>

\* The arenas are dropped: VecArena's Drop runs, then its fields are dropped.
Drop ==
    /\ ~dropped
    /\ LET d == va_drop(va)
       IN  /\ va' = [mask |-> d.mask, values |-> d.values]
           /\ released' = Released(released, ReadTokens(va.values, d.reads))
           /\ touched' = Range(d.reads)
           /\ ub' = (ub \/ d.oob \/ BadRead(va.values, d.reads))
    /\ hm' = hm_new
    /\ call' = [op |-> "drop", id |-> 0, val |-> None]
    /\ ret' = [hm |-> None, va |-> None]
    /\ dropped' = TRUE
    /\ UNCHANGED <<nextTok, recent, inserted, schedVars>>

(* ------------------------------- actions ------------------------------- *)

\* A call of validate(world, systems).
Validate ==
    /\ pc = "ready"
    /\ result' = validate(world, systems)
    /\ pc' = "done"
    /\ UNCHANGED <<world, systems, masks, fetched, borrows, arenaVars>>

\* A system's masks are computed: readables, writables and mask_at.
ComputeMasks ==
    /\ pc = "ready"
    /\ Len(systems) = 1
    /\ masks' = [r  |-> readables(world, systems[1]),
                 w  |-> writables(world, systems[1]),
                 at |-> mask_at(world, systems[1])]
    /\ pc' = "done"
    /\ UNCHANGED <<world, systems, result, fetched, borrows, arenaVars>>

\* SystemData::fetch of one element: Fetch<T> borrows world.arena::<T>(),
\* FetchMut<T> borrows world.arena_mut::<T>().
elem_fetch(bs, e) ==
    IF e.kind = "Fetch" THEN arena(bs, e.ty) ELSE arena_mut(bs, e.ty)

\* System i of a validated batch fetches the next element of its bundle
\* (the tuple's fetch goes through its elements in declaration order).
FetchStep(i) ==
    /\ pc = "done"
    /\ result = TRUE
    /\ fetched[i] < Len(systems[i])
    /\ borrows' = elem_fetch(borrows, systems[i][fetched[i] + 1])
    /\ fetched' = [fetched EXCEPT ![i] = @ + 1]
    /\ UNCHANGED <<world, systems, pc, result, masks, arenaVars>>

\* The handles of a bundle, given back one after the other.
RECURSIVE release_all(_, _)
release_all(bs, bundle) ==
    IF bundle = <<>> THEN bs ELSE release_all(release(bs, Head(bundle)), Tail(bundle))

\* System i holds its whole bundle, runs and returns: its handles are dropped.
Finish(i) ==
    /\ pc = "done"
    /\ result = TRUE
    /\ fetched[i] = Len(systems[i])
    /\ borrows' = release_all(borrows, systems[i])
    /\ fetched' = [fetched EXCEPT ![i] = Len(systems[i]) + 1]
    /\ UNCHANGED <<world, systems, pc, result, masks, arenaVars>>

(* ---------------------------- specifications --------------------------- *)

\* No mask has been computed yet.
NoMasks == [r |-> {}, w |-> {}, at |-> {}]

Idle ==
    /\ pc = "ready"
    /\ result = "none"
    /\ masks = NoMasks
    /\ borrows = NoBorrows

\* validate on every batch of systems with arbitrary read and write masks.
InitValidate ==
    /\ world = RegistrationOrder
    /\ systems \in SeqsUpTo(MaskSystems, MaxBatch)
    /\ fetched = [i \in 1..Len(systems) |-> 0]
    /\ Idle
    /\ ArenasNew

NextValidate == Validate

SpecValidate == InitValidate /\ [][NextValidate]_vars

\* validate on every batch of exactly three systems.
InitTriple ==
    /\ world = RegistrationOrder
    /\ systems \in [1..3 -> MaskSystems]
    /\ fetched = [i \in 1..Len(systems) |-> 0]
    /\ Idle
    /\ ArenasNew

SpecTriple == InitTriple /\ [][NextValidate]_vars

\* the masks of every bundle, in every world.
InitBundle ==
    /\ world \in Registries
    /\ systems \in [1..1 -> Bundles]
    /\ fetched = [i \in 1..Len(systems) |-> 0]
    /\ Idle
    /\ ArenasNew

NextBundle == ComputeMasks

SpecBundle == InitBundle /\ [][NextBundle]_vars

\* a batch of systems is validated and, if accepted, dispatched: the systems
\* fetch their bundles concurrently, run and return.
InitFetch ==
    /\ world = RegistrationOrder
    /\ systems \in SeqsUpTo(Bundles, MaxBatch)
    /\ fetched = [i \in 1..Len(systems) |-> 0]
    /\ Idle
    /\ ArenasNew

NextFetch ==
    \/ Validate
    \/ \E i \in 1..Len(systems) : FetchStep(i)
    \/ \E i \in 1..Len(systems) : Finish(i)

SpecFetch == InitFetch /\ [][NextFetch]_vars

\* the two arenas, from new() to their drop, under the same calls.
Init ==
    /\ world = RegistrationOrder
    /\ systems = <<>>
    /\ fetched = <<>>
    /\ Idle
    /\ ArenasNew

Next ==
    \/ \E id \in Indices : Insert(id)
    \/ \E id \in Indices : Remove(id)
    \/ \E id \in Indices : Get(id)
    \/ \E id \in Indices : GetMut(id)
    \/ Drop

Spec == Init /\ [][Next]_vars

\* the same, with callers that also use the unsafe accessors.
NextUnchecked ==
    \/ Next
    \/ \E id \in Indices : GetUnchecked(id)
    \/ \E id \in Indices : GetUncheckedMut(id)

SpecUnchecked == Init /\ [][NextUnchecked]_vars

(* ------------------------- claims: the validator ----------------------- *)

\* System s names component type T in a FetchMut / in a Fetch.
Writes(s, T) == \E k \in DOMAIN s : s[k] = [kind |-> "FetchMut", ty |-> T]
Reads(s, T) == \E k \in DOMAIN s : s[k] = [kind |-> "Fetch", ty |-> T]

\* Some type is written by two systems at different positions of the batch.
WriteWriteConflict(ss) ==
    \E T \in Types : \E i, j \in DOMAIN ss : i # j /\ Writes(ss[i], T) /\ Writes(ss[j], T)

\* Some type is written by a system and read by a system (another or the same).
ReadWriteConflict(ss) ==
    \E T \in Types : \E i, j \in DOMAIN ss : Writes(ss[i], T) /\ Reads(ss[j], T)

\* The two checks of the algorithm, stated on the masks of the systems.
SurvivesBothChecks(wd, ss) ==
    /\ \A i \in DOMAIN ss :
          writables(wd, ss[i]) \cap UNION {writables(wd, ss[j]) : j \in 1..(i - 1)} = {}
    /\ UNION {writables(wd, ss[i]) : i \in DOMAIN ss}
          \cap UNION {readables(wd, ss[i]) : i \in DOMAIN ss} = {}

\* C1: validate returns true iff the batch survives both checks (no system's
\* write mask meets the writes of the systems before it, and the accumulated
\* writes and reads are disjoint); that is, it returns false exactly when a
\* type is written by two systems at different positions, or is written by
\* some system and read by some system.
C1_ValidateIffNoConflict ==
    pc = "done" =>
        /\ result = SurvivesBothChecks(world, systems)
        /\ result = ~(WriteWriteConflict(systems) \/ ReadWriteConflict(systems))

\* C1 witness: a batch of two systems rejected only because one of them reads
\* what the other writes.
C1_Witness ==
    /\ pc = "done"
    /\ result = FALSE
    /\ Len(systems) = 2
    /\ ~WriteWriteConflict(systems)
    /\ \E T \in Types : Writes(systems[2], T) /\ Reads(systems[1], T)
    /\ \A T \in Types : \A i \in 1..2 : ~(Writes(systems[i], T) /\ Reads(systems[i], T))

\* The read/write-conflict rule on a pair of systems, on their masks.
PairOk(wd, a, b) ==
    /\ writables(wd, a) \cap writables(wd, b) = {}
    /\ (writables(wd, a) \cup writables(wd, b))
          \cap (readables(wd, a) \cup readables(wd, b)) = {}

\* C3: for three systems A, B, C, validate([A,B,C]) equals validate([A,B]) and
\* validate([A,C]) and validate([B,C]), and equals the direct pairwise check.
C3_TripleIsPairwise ==
    (pc = "done" /\ Len(systems) = 3) =>
        /\ result = (/\ validate(world, <<systems[1], systems[2]>>)
                     /\ validate(world, <<systems[1], systems[3]>>)
                     /\ validate(world, <<systems[2], systems[3]>>))
        /\ result = (/\ PairOk(world, systems[1], systems[2])
                     /\ PairOk(world, systems[1], systems[3])
                     /\ PairOk(world, systems[2], systems[3]))

\* C3 witness: a rejected triple in which the first two systems write the same
\* type and the third only reads it.
C3_Witness ==
    /\ pc = "done"
    /\ Len(systems) = 3
    /\ result = FALSE
    /\ \E T \in Types :
          /\ Writes(systems[1], T) /\ Writes(systems[2], T) /\ Reads(systems[3], T)
          /\ ~Writes(systems[3], T)

\* The batch ss taken in the order p.
Permuted(ss, p) == [k \in DOMAIN ss |-> ss[p[k]]]

\* C4: validate returns the same boolean on every permutation of the batch.
C4_OrderIndependent ==
    pc = "done" =>
        \A p \in Permutations(DOMAIN systems) :
            validate(world, Permuted(systems, p)) = result

\* C4 witness: a rejected batch of two different systems whose only conflict is
\* that the second system reads a type the first one writes, so that the loop
\* passes and the check after the loop rejects.
C4_Witness ==
    /\ pc = "done"
    /\ result = FALSE
    /\ Len(systems) = 2
    /\ systems[1] # systems[2]
    /\ ~WriteWriteConflict(systems)
    /\ \E T \in Types : Writes(systems[1], T) /\ Reads(systems[2], T)
    /\ \A T \in Types : \A i \in 1..2 : ~(Writes(systems[i], T) /\ Reads(systems[i], T))

(* -------------------------- claims: the bundles ------------------------ *)

\* C5: readables is exactly the set of registry indices of the types named by
\* the bundle's Fetch elements, writables that of its FetchMut elements; both
\* stay the same under every reordering of the tuple, and the empty bundle
\* has both masks empty.
C5_MaskComposition ==
    pc = "done" =>
        LET b == systems[1] IN
        /\ masks.r = {index(world, T) : T \in {U \in Types : Reads(b, U)}}
        /\ masks.w = {index(world, T) : T \in {U \in Types : Writes(b, U)}}
        /\ masks.r = UNION {elem_readables(world, b[k]) : k \in DOMAIN b}
        /\ masks.w = UNION {elem_writables(world, b[k]) : k \in DOMAIN b}
        /\ \A p \in Permutations(DOMAIN b) :
              /\ readables(world, Permuted(b, p)) = masks.r
              /\ writables(world, Permuted(b, p)) = masks.w
        /\ (b = <<>> => masks.r = {} /\ masks.w = {})

\* C5 witness: a bundle (Fetch<A>, FetchMut<B>, Fetch<A>) with A # B, in a
\* world that registered B before A.
C5_Witness ==
    /\ pc = "done"
    /\ Len(systems[1]) = 3
    /\ systems[1][1].kind = "Fetch"
    /\ systems[1][2].kind = "FetchMut"
    /\ systems[1][3].kind = "Fetch"
    /\ systems[1][1].ty # systems[1][2].ty
    /\ index(world, systems[1][2].ty) < index(world, systems[1][1].ty)
    /\ masks.r = {index(world, systems[1][1].ty)}
    /\ masks.w = {index(world, systems[1][2].ty)}

(* ----------------------- claims: borrows at dispatch ------------------- *)

\* C2: once validate has accepted a batch, however its systems interleave
\* while they fetch and hold their bundles, every component type has at most
\* one exclusive borrow outstanding, and none together with a shared borrow.
C2_BorrowDiscipline ==
    (pc = "done" /\ result = TRUE) =>
        \A T \in Types :
            /\ borrows[T].excl <= 1
            /\ (borrows[T].excl = 0 \/ borrows[T].shared = 0)

(* --------------------------- claims: the arenas ------------------------ *)

\* C6: in both arenas, right after insert(i, v) get(i) returns v, and right
\* after remove(i) get(i) returns nothing, whatever the arena held before.
C6_RoundTrip ==
    /\ call.op = "insert" =>
          /\ va_get(va, call.id) = call.val
          /\ hm_get(hm, call.id) = call.val
    /\ call.op = "remove" =>
          /\ va_get(va, call.id) = None
          /\ hm_get(hm, call.id) = None

\* C6 witness: an insert that overwrote a value at an index below the top of
\* the backing array, after which get returns the new value.
C6_Witness ==
    /\ call.op = "insert"
    /\ call.id + 1 < Len(va.values)
    /\ ret.va # None
    /\ ret.va # call.val
    /\ va_get(va, call.id) = call.val
    /\ hm_get(hm, call.id) = call.val

\* C7: in both arenas insert(i, v) returns the value stored at i before the
\* call when i was present, and nothing when it was absent. A second insert
\* at the same index returns the first one's value and leaves get(i) at the
\* second value; an insert right after remove(i) returns nothing.
C7_InsertReturnsPrevious ==
    [][nextTok' # nextTok =>
          LET i == call'.id IN
          /\ call'.op = "insert"
          /\ ret'.hm = (IF i \in DOMAIN hm THEN Some(hm[i]) ELSE None)
          /\ ret'.va = (IF i \in va.mask THEN Some(ValueOf(va.values[i + 1])) ELSE None)
          /\ (call.op = "insert" /\ call.id = i) =>
                /\ ret'.hm = call.val
                /\ ret'.va = call.val
                /\ hm_get(hm', i) = call'.val
                /\ va_get(va', i) = call'.val
          /\ (call.op = "remove" /\ call.id = i) =>
                /\ ret'.hm = None
                /\ ret'.va = None
    ]_vars

\* C7 witness: an insert that returned, from both arenas, the value stored
\* before it, which is not the one it stored.
C7_Witness ==
    /\ call.op = "insert"
    /\ ret.va # None
    /\ ret.hm # None
    /\ ret.va = ret.hm
    /\ ret.va # call.val
    /\ va_get(va, call.id) = call.val

\* C8: while the dense arena lives, its presence bitset holds exactly the
\* indices for which get returns a value, and these are exactly the indices
\* whose most recent insert / remove was an insert.
C8_PresenceConsistent ==
    ~dropped =>
        /\ va.mask = {i \in 0..(MaxIndex + 1) : va_get(va, i) # None}
        /\ va.mask = {i \in Indices : recent[i] = "insert"}

\* C8 witness: indices 0 and 2 present, index 1 inserted and removed again.
C8_Witness ==
    /\ ~dropped
    /\ va.mask = {0, 2}
    /\ recent[1] = "remove"
    /\ va_get(va, 1) = None
    /\ va_get(va, 0) # None

\* C9: no call of the dense arena (insert, remove, drop) reads or destructs a
\* slot that holds no value or lies outside the Vec; the slots that hold a
\* value are exactly the present ones; no value is moved out or destructed
\* twice; while the arena lives the values not yet given back are exactly
\* those of the present slots; once it is dropped every value ever inserted
\* has been moved out or destructed exactly once.
C9_ExactlyOnce ==
    /\ ~ub
    /\ \A t \in 1..nextTok : released[t] <= 1
    /\ \A i \in 0..(Len(va.values) - 1) : (va.values[i + 1].st = "live") <=> (i \in va.mask)
    /\ \A i \in va.mask : i < Len(va.values)
    /\ ~dropped =>
          \A t \in 1..nextTok :
              (released[t] = 0) <=> (\E i \in va.mask : va.values[i + 1].val = t)
    /\ dropped => \A t \in 1..nextTok : released[t] = 1

\* C9 witness: an arena dropped with indices 0 and 2 present and a gap at 1,
\* a slot that was constructed and vacated by remove.
C9_Witness ==
    /\ dropped
    /\ touched = {0, 2}
    /\ recent[1] = "remove"
    /\ nextTok >= 3
    /\ \A t \in 1..nextTok : released[t] = 1

\* C10: get and get_mut return nothing for an index beyond the backing storage
\* or not present, in both arenas, and every index whose presence bit is set
\* is smaller than the length of the backing array.
C10_GetInBounds ==
    /\ \A i \in va.mask : i < Len(va.values)
    /\ \A i \in 0..(MaxIndex + 1) :
          /\ (i >= Len(va.values) \/ ~contains(va.mask, i)) =>
                (va_get(va, i) = None /\ va_get_mut(va, i) = None)
          /\ i \notin DOMAIN hm => hm_get(hm, i) = None
    /\ (call.op \in {"get", "get_mut"} /\ ret.va # None) =>
          (call.id < Len(va.values) /\ call.id \in va.mask)

\* C10 witness: get on an index beyond a backing array of two slots, of which
\* the first was vacated, returned nothing.
C10_Witness ==
    /\ call.op = "get"
    /\ call.id = 2
    /\ Len(va.values) = 2
    /\ va.mask = {1}
    /\ ret.va = None
    /\ ret.hm = None

\* C11: in both arenas remove(i) on a present index returns the stored value
\* and clears the presence of i; remove(i) on an absent index (never
\* inserted, already removed, or beyond the backing array) returns nothing,
\* raises no error, and leaves the arena as it was.
C11_Remove ==
    [][call'.op = "remove" =>
          LET i == call'.id IN
          /\ i \in DOMAIN hm =>
                /\ ret'.hm = Some(hm[i])
                /\ DOMAIN hm' = DOMAIN hm \ {i}
          /\ i \notin DOMAIN hm =>
                /\ ret'.hm = None
                /\ hm' = hm
          /\ i \in va.mask =>
                /\ ret'.va = Some(ValueOf(va.values[i + 1]))
                /\ va'.mask = va.mask \ {i}
                /\ va_get(va', i) = None
          /\ i \notin va.mask =>
                /\ ret'.va = None
                /\ va' = va
                /\ released' = released
          /\ ub' = ub
          /\ dropped' = dropped
    ]_vars

\* C11 witness: remove on an index beyond the backing array of an arena that
\* holds a value returned nothing from both arenas.
C11_Witness ==
    /\ call.op = "remove"
    /\ call.id >= Len(va.values)
    /\ va.mask # {}
    /\ ret.va = None
    /\ ret.hm = None

\* The last call was one of the two unchecked accessors.
UncheckedCall == call.op \in {"get_unchecked", "get_unchecked_mut"}

\* C12 as stated: in both arenas an unchecked accessor on an index that is not
\* present panics, and never returns a reference to a slot that is not present.
C12_UncheckedFailsFast ==
    UncheckedCall =>
        /\ call.id \notin DOMAIN hm => ret.hm.kind = "panic"
        /\ call.id \notin va.mask => ret.va.kind = "panic"

\* C12 as amended: in the sparse arena an unchecked accessor on an absent
\* index panics and on a present one returns its value. In the dense arena it
\* checks nothing: on a present index it returns the slot with its value, and
\* on an absent index inside the backing array it returns a reference to the
\* slot, which holds no value, without any panic. Beyond the backing array
\* the behaviour is undefined and nothing is stated.
C12_UncheckedAmended ==
    UncheckedCall =>
        /\ call.id \notin DOMAIN hm => ret.hm = Panic
        /\ call.id \in DOMAIN hm => ret.hm = Ref("live", hm[call.id])
        /\ call.id \in va.mask =>
              ret.va = Ref("live", va.values[call.id + 1].val)
        /\ (call.id \notin va.mask /\ call.id < Len(va.values)) =>
              /\ ret.va.kind = "ref"
              /\ ret.va.slot \in {"uninit", "moved"}

\* C12 witness: get_unchecked on an index that was removed: the sparse arena
\* panicked, the dense arena returned a reference to the moved-out slot.
C12_Witness ==
    /\ call.op = "get_unchecked"
    /\ call.id \notin va.mask
    /\ call.id < Len(va.values)
    /\ recent[call.id] = "remove"
    /\ ret.hm = Panic
    /\ ret.va = Ref("moved", 0)

\* C13: run side by side from the empty state on the same get, get_mut,
\* insert and remove calls, the two arenas return the same result from every
\* call, and after every step they hold the same present indices with the
\* same value at each.
C13_ArenasEquivalent ==
    ~dropped =>
        /\ ret.hm = ret.va
        /\ DOMAIN hm = va.mask
        /\ \A i \in va.mask :
              /\ i < Len(va.values)
              /\ va.values[i + 1].st = "live"
              /\ hm[i] = ValueOf(va.values[i + 1])
        /\ \A i \in 0..(MaxIndex + 1) : hm_get(hm, i) = va_get(va, i)

\* C13 witness: an insert over a present index returned the same previous
\* value from both arenas, while another index inside the Vec is removed.
C13_Witness ==
    /\ call.op = "insert"
    /\ ret.va # None
    /\ ret.hm = ret.va
    /\ \E j \in Indices : j < Len(va.values) /\ recent[j] = "remove"

\* The largest index of a non-empty set of indices.
Largest(S) == CHOOSE x \in S : \A y \in S : y <= x

\* C14: a dense insert at an index at or beyond the length grows the Vec to
\* exactly that index + 1 and marks only that index present, the slots in
\* between staying absent; remove leaves the length alone; so the length
\* never decreases and is 0 while nothing was inserted, else 1 + the largest
\* index ever inserted.
C14_DenseLength ==
    /\ [](~dropped =>
            Len(va.values) = IF inserted = {} THEN 0 ELSE 1 + Largest(inserted))
    /\ [][ /\ (call'.op = "insert" /\ call'.id >= Len(va.values)) =>
                /\ Len(va'.values) = call'.id + 1
                /\ va'.mask = va.mask \cup {call'.id}
                /\ \A j \in Len(va.values)..(call'.id - 1) :
                      /\ j \notin va'.mask
                      /\ va'.values[j + 1] = Uninit
                      /\ va_get(va', j) = None
           /\ (call'.op = "insert" /\ call'.id < Len(va.values)) =>
                Len(va'.values) = Len(va.values)
           /\ call'.op = "remove" => Len(va'.values) = Len(va.values)
           /\ ~dropped' => Len(va'.values) >= Len(va.values)
         ]_vars

\* C14 witness: the last slot of a full-length Vec was removed, a slot below
\* it was never inserted, and the length is still 1 + the largest index.
C14_Witness ==
    /\ call.op = "remove"
    /\ ret.va # None
    /\ call.id = MaxIndex
    /\ Len(va.values) = MaxIndex + 1
    /\ \E j \in Indices : j \notin inserted /\ j < call.id

\* C15: in both arenas insert(i, v) and remove(i) leave every other index as
\* it was: for every j # i, whether j is present and the value stored at j
\* are the same before and after the call.
C15_Frame ==
    [][call'.op \in {"insert", "remove"} =>
          \A j \in (0..(MaxIndex + 1)) \ {call'.id} :
              /\ (j \in DOMAIN hm') = (j \in DOMAIN hm)
              /\ hm_get(hm', j) = hm_get(hm, j)
              /\ (j \in va'.mask) = (j \in va.mask)
              /\ va_get(va', j) = va_get(va, j)
              /\ j < Len(va.values) => va'.values[j + 1] = va.values[j + 1]
    ]_vars

\* C15 witness: an insert at the last index grew the Vec past index 1, which
\* is still absent, while index 0 is still present.
C15_Witness ==
    /\ call.op = "insert"
    /\ call.id = MaxIndex
    /\ ret.va = None
    /\ 0 \in va.mask
    /\ 1 \notin va.mask
    /\ va.values[2] = Uninit
    /\ nextTok = 2

====
